---- MODULE Spec2Model ----
(***************************************************************************)
(* Extractive summarizer (src/src/lib.rs): a Summarizer is built once and  *)
(* then asked for a summary by sentence count or by byte ratio.            *)
(*                                                                         *)
(* A text is a sequence of sentences (each a sequence of raw words)        *)
(* preceded by `pad` bytes that segment into pieces without alphanumerics  *)
(* (dropped by unicode_sentences).  Byte lengths that can reach 2^32 are   *)
(* kept as two limbs of 16 bits.  f64 values are sign/magnitude records    *)
(* with a NaN flag; finite magnitudes are fixed point, so the rounding of  *)
(* f64 sums is not modelled.  The sign of a NaN that 0.0 / 0.0 produces    *)
(* and the order sort_unstable leaves equal keys in are not fixed by the   *)
(* language: every outcome is a behaviour of the model.                    *)
(***************************************************************************)
EXTENDS Integers, Sequences, FiniteSets, TLC

\* ------------------------------------------------------------ bounds
MaxSentences == 3
MaxPad == 1
MaxN == 3
RatioDen == 2 ^ 2

\* ------------------------------------------------------------ numbers
Limb == 2 ^ 16
Unit == 2 ^ 12
NaNRank == 2 ^ 29

Norm(hi, lo) == [hi |-> hi + (lo \div Limb), lo |-> lo % Limb]

\* usize value 2^32 - 1
U32Max == [hi |-> Limb - 1, lo |-> Limb - 1]

\* the length assertion left out
AlwaysOk(len) == TRUE

U32TryFromOk(len) == len.hi < Limb

\* log2 of 1..8 with 8 fractional bits
Log2Fix(k) == <<0, 256, 406, 512, 594, 662, 719, 768>>[k]

RECURSIVE SqrtSearch(_, _, _)
SqrtSearch(x, lo, hi) ==
    IF lo = hi THEN lo
    ELSE LET mid == (lo + hi + 1) \div 2
         IN  IF mid * mid <= x THEN SqrtSearch(x, mid, hi)
             ELSE SqrtSearch(x, lo, mid - 1)

Sqrt(x) == SqrtSearch(x, 0, 46340)

RECURSIVE SumOver(_, _)
SumOver(S, f) ==
    IF S = {} THEN 0
    ELSE LET t == CHOOSE u \in S : TRUE
         IN  f[t] + SumOver(S \ {t}, f)

\* ------------------------------------------------------------ f64
Fin(m) == [nan |-> FALSE, neg |-> FALSE, mag |-> m]
NaN(neg) == [nan |-> TRUE, neg |-> neg, mag |-> 0]
FNeg(x) == [x EXCEPT !.neg = ~x.neg]

\* f64::total_cmp as an integer key: -NaN < -finite < -0 < +0 < +finite < +NaN
TotalKey(x) ==
    LET m == IF x.nan THEN NaNRank ELSE x.mag
    IN  IF x.neg THEN -(2 * m + 1) ELSE 2 * m + 1

OrdFloatLe(x, y) == TotalKey(x) <= TotalKey(y)

\* ------------------------------------------------------------ words
\* the raw words of the texts: "The", "Spot", "Run", "runs"
ToLowercase(w) ==
    CASE w = "The" -> "the"
      [] w = "Spot" -> "spot"
      [] w = "Run" -> "run"
      [] OTHER -> w

\* rust_stemmers' English algorithm on the vocabulary
SnowballStem(w) == IF w = "runs" THEN "run" ELSE w

English == [stemmer |-> TRUE, stop_words |-> {"the"}]
LanguageAgnostic == [stemmer |-> FALSE, stop_words |-> {}]
Summarizers == {English, LanguageAgnostic}

Stem(s, w) == ToLowercase(IF s.stemmer THEN SnowballStem(w) ELSE w)
StopWordsContains(s, w) == ToLowercase(w) \in s.stop_words

\* ------------------------------------------------------------ texts
\* A text: `pad` bytes of segments without alphanumerics, then the
\* sentences `sents` (each its words), every sentence but the last followed
\* by one whitespace byte, the last one too when `ws`.
SentenceWords == {<<"The">>, <<"Spot", "runs">>, <<"Run", "Run">>}

SentenceSeqs == UNION {[1..k -> SentenceWords] : k \in 0..MaxSentences}

\* unicode_sentences: the sentences of the text in order, each a slice that
\* knows its place (idx) in the text
sentences(txt) ==
    [i \in DOMAIN txt.sents |->
        [idx |-> i - 1, words |-> txt.sents[i],
         ws |-> (i < Len(txt.sents)) \/ txt.ws]]

\* str::trim_end().len() of a sentence: the words, single separators
\* between them, one terminator
TrimEndLen(sen) ==
    SumOver(DOMAIN sen.words, [i \in DOMAIN sen.words |-> Len(sen.words[i])])
    + (Len(sen.words) - 1) + 1

SentenceLen(sen) == TrimEndLen(sen) + (IF sen.ws THEN 1 ELSE 0)

SentencesBytes(ss, ws) ==
    LET sens == sentences([sents |-> ss, ws |-> ws])
    IN  SumOver(DOMAIN sens, [i \in DOMAIN sens |-> SentenceLen(sens[i])])

\* str::len() as two limbs
TextLen(txt) == Norm(txt.pad.hi, txt.pad.lo + SentencesBytes(txt.sents, txt.ws))

\* the pad that brings the sentences to the overall length 2^32 - 1 + extra
PadTo(ss, ws, extra) == Norm(Limb - 1, Limb - 1 + extra - SentencesBytes(ss, ws))

PadsFor(ss, ws) ==
    {[hi |-> 0, lo |-> p] : p \in 0..MaxPad} \cup {PadTo(ss, ws, 0), PadTo(ss, ws, 1)}

Texts ==
    UNION {UNION {{[sents |-> ss, ws |-> ws, pad |-> p] : p \in PadsFor(ss, ws)}
                    : ws \in IF ss = <<>> THEN {FALSE} ELSE BOOLEAN}
             : ss \in SentenceSeqs}

\* ------------------------------------------------------------ pipeline
\* the words of a sentence that are no stop words, stemmed
KeptWords(s, sen) ==
    {i \in DOMAIN sen.words : ~StopWordsContains(s, sen.words[i])}

TermSet(s, sen) == {Stem(s, sen.words[i]) : i \in KeptWords(s, sen)}

TermCount(s, sen, t) ==
    Cardinality({i \in KeptWords(s, sen) : Stem(s, sen.words[i]) = t})

idfs(sens, s) ==
    LET n == Len(sens)
        terms == UNION {TermSet(s, sens[i]) : i \in DOMAIN sens}
        count(t) == Cardinality({i \in DOMAIN sens : t \in TermSet(s, sens[i])})
    IN  [t \in terms |-> Log2Fix(n) - Log2Fix(count(t))]

\* 0.0 / 0.0 is NaN, of the sign the build gives it (nanNeg)
FDiv(v, mag, nanNeg) ==
    IF mag = 0 THEN NaN(nanNeg) ELSE Fin((v * Unit) \div mag)

tf_idf(sens, idf, s, nanNeg) ==
    LET terms == UNION {TermSet(s, sens[i]) : i \in DOMAIN sens}
        tf(t) == SumOver(DOMAIN sens, [i \in DOMAIN sens |-> TermCount(s, sens[i], t)])
        raw == [t \in terms |-> tf(t) * (IF t \in DOMAIN idf THEN idf[t] ELSE 0)]
        mag == Sqrt(SumOver(terms, [t \in terms |-> raw[t] * raw[t]]))
    IN  [t \in terms |-> FDiv(raw[t], mag, nanNeg)]

tf_idfs(sens, idf, s, nanNeg) ==
    [i \in DOMAIN sens |-> tf_idf(<<sens[i]>>, idf, s, nanNeg)]

\* the dot product over the words of a that b has; a NaN weight makes it NaN
cosine_compare(a, b) ==
    LET shared == DOMAIN a \cap DOMAIN b
        nans == {t \in shared : a[t].nan \/ b[t].nan}
    IN  IF nans # {}
        THEN LET t == CHOOSE u \in nans : TRUE
             IN  NaN(IF a[t].nan THEN a[t].neg ELSE b[t].neg)
        ELSE Fin(SumOver(shared, [t \in shared |-> a[t].mag * b[t].mag]))

\* the first element of maximal key instead of the last
FirstMaxByKey(keys) ==
    LET best == {i \in DOMAIN keys : \A j \in DOMAIN keys : OrdFloatLe(keys[j], keys[i])}
    IN  CHOOSE i \in best : \A j \in best : i <= j

\* Iterator::max_by_key: the last element of maximal key (1-based position)
MaxByKey(keys) ==
    LET best == {i \in DOMAIN keys : \A j \in DOMAIN keys : OrdFloatLe(keys[j], keys[i])}
    IN  CHOOSE i \in best : \A j \in best : j <= i

Injective(p) == \A i, j \in DOMAIN p : p[i] = p[j] => i = j

\* sort_unstable_by_key on 0..n-1: every arrangement with keys in
\* non-decreasing order (equal keys in any order)
SortUnstableByKey(n, key) ==
    LET k == [i \in DOMAIN key |-> TotalKey(key[i])]
    IN  {p \in [1..n -> 0..(n - 1)] :
            /\ Injective(p)
            /\ \A i \in 1..(n - 1) : k[p[i] + 1] <= k[p[i + 1] + 1]}

\* the indices left in ranking order
Unsorted(q) == q

\* slice::sort_unstable on the selected indices: ascending (insertion of the
\* head into the sorted tail)
RECURSIVE SortUnstable(_)
SortUnstable(q) ==
    IF q = <<>> THEN <<>>
    ELSE LET rest == SortUnstable(Tail(q))
             below == SelectSeq(rest, LAMBDA v : v < Head(q))
             above == SelectSeq(rest, LAMBDA v : v >= Head(q))
         IN  below \o <<Head(q)>> \o above

Truncate(q, len) == IF len < Len(q) THEN SubSeq(q, 1, len) ELSE q

\* Vec::retain with the closure of summarize_impl: i counts the sentences
\* seen, idx is what is left of the sorted indices; indices[0] on an empty
\* slice panics
RECURSIVE Retain(_, _, _)
Retain(sens, idx, i) ==
    IF i >= Len(sens) THEN [panic |-> FALSE, out |-> <<>>]
    ELSE IF idx = <<>> THEN [panic |-> TRUE, out |-> <<>>]
    ELSE LET keep == (i = idx[1])
             rest == Retain(sens, IF keep THEN Tail(idx) ELSE idx, i + 1)
         IN  [panic |-> rest.panic,
              out |-> IF keep THEN <<sens[i + 1]>> \o rest.out ELSE rest.out]

\* indices.last().unwrap() panics on no indices
summarize_impl(sens, indices) ==
    IF indices = <<>> THEN [panic |-> TRUE, out |-> <<>>]
    ELSE LET sorted == SortUnstable(indices)
             end == sorted[Len(sorted)] + 1
         IN  Retain(Truncate(sens, end), sorted, 0)

EmptyWork ==
    [stages |-> <<>>, sentences |-> <<>>, tf_idfs |-> <<>>, overall |-> <<>>,
     docSims |-> <<>>, core |-> 0, coreSims |-> <<>>, indices |-> <<>>]

\* the early return left out
NeverEmpty(sens) == FALSE

\* `if sentences.is_empty() { return Default::default(); }`
IsEmpty(sens) == sens = <<>>

\* the similarity of every sentence to the vector b
Similarities(vecs, b) == [i \in DOMAIN vecs |-> cosine_compare(vecs[i], b)]

\* the key without the negation: ascending similarity
SortKeyNoNeg(sims) == sims

\* the key of the sort: OrdFloat(-cosine_compare(tf_idf, best_match))
SortKey(sims) == [i \in DOMAIN sims |-> FNeg(sims[i])]

\* the core sentence and the ranking, from the vectors of the sentences and
\* of the text: one outcome per order the sort leaves equal keys in
Rank(sens, vecs, overall) ==
    LET ran == <<"sentences", "idfs", "tf_idfs", "tf_idf", "max_by_key", "sort">>
    IN  UNION {UNION {UNION {
          {[stages |-> ran, sentences |-> sens, tf_idfs |-> vecs,
            overall |-> overall, docSims |-> docSims, core |-> core - 1,
            coreSims |-> coreSims, indices |-> p]
              : p \in SortUnstableByKey(Len(sens), SortKey(coreSims))}
          : coreSims \in {Similarities(vecs, vecs[core])}}
          : core \in {MaxByKey(docSims)}}
          : docSims \in {Similarities(vecs, overall)}}

\* every way summarize_indices can end: the panic of the length assertion,
\* the empty result, or the sentences with a ranking (one per sign the
\* build gives a NaN and per order the sort leaves equal keys in)
summarize_indices(s, txt) ==
    IF ~U32TryFromOk(TextLen(txt))
    THEN {[EmptyWork EXCEPT !.stages = <<"panic">>]}
    ELSE
    LET sens == sentences(txt)
    IN  IF IsEmpty(sens)
        THEN {[EmptyWork EXCEPT !.stages = <<"sentences">>]}
        ELSE IF Len(sens) = 0
        THEN \* max_by_key of no sentences is None: unwrap panics
             {[EmptyWork EXCEPT !.stages =
                    <<"sentences", "idfs", "tf_idfs", "tf_idf", "panic">>]}
        ELSE UNION {UNION {
               Rank(sens, tf_idfs(sens, idf, s, nanNeg), tf_idf(sens, idf, s, nanNeg))
               : nanNeg \in BOOLEAN} : idf \in {idfs(sens, s)}}

Panicked(w) == w.stages # <<>> /\ w.stages[Len(w.stages)] = "panic"

\* ------------------------------------------------------------ selection
\* a ratio is num / RatioDen, or NaN
Ratios == {[nan |-> FALSE, num |-> k] : k \in (-1)..(RatioDen + 1)}
            \cup {[nan |-> TRUE, num |-> 0]}

\* (0.0..=1.0).contains(&ratio)
RatioInRange(r) == ~r.nan /\ 0 <= r.num /\ r.num <= RatioDen

\* (ratio * (text.len() as f64)).round() as usize, half away from zero
Target(r, len) ==
    LET a == 2 * r.num * len.hi
        b == 2 * r.num * len.lo + RatioDen
        d == 2 * RatioDen
    IN  Norm(a \div d, ((a % d) * Limb + b) \div d)

\* the charge without the + 1
CostNoSeparator(sens, j) == TrimEndLen(sens[j + 1])

\* sentences[j].trim_end().len() + 1
Cost(sens, j) == TrimEndLen(sens[j + 1]) + 1

\* total_len once the closure has run on positions 0..i of the ranking
TotalLen(sens, indices, i) ==
    SumOver(1..(i + 1), [k \in 1..(i + 1) |-> Cost(sens, indices[k])])

\* total_len > target
Exceeds(total, target) == target.hi = 0 /\ total > target.lo

\* the position after the overflowing sentence
FindMapNext(sens, indices, target) ==
    LET hits == {i \in 0..(Len(indices) - 1) :
                    Exceeds(TotalLen(sens, indices, i), target)}
    IN  IF hits = {} THEN -1 ELSE (CHOOSE i \in hits : \A j \in hits : i <= j) + 1

\* find_map: the first position whose sentence takes total_len over the
\* target (Some(i)), or None as -1
FindMap(sens, indices, target) ==
    LET hits == {i \in 0..(Len(indices) - 1) :
                    Exceeds(TotalLen(sens, indices, i), target)}
    IN  IF hits = {} THEN -1 ELSE CHOOSE i \in hits : \A j \in hits : i <= j

UnwrapOr(found, default) == IF found = -1 THEN default ELSE found

\* the .max(1) left out
NoFloor(end) == end

\* .max(1)
AtLeastOne(end) == IF end < 1 THEN 1 ELSE end

RatioEnd(sens, indices, target) ==
    AtLeastOne(UnwrapOr(FindMap(sens, indices, target), Len(indices)))

\* ------------------------------------------------------------ state
VARIABLES summarizer, text, pc, op, n, ratio, work, selected, result

vars == <<summarizer, text, pc, op, n, ratio, work, selected, result>>

Init ==
    /\ summarizer \in Summarizers
    /\ text \in Texts
    /\ pc = "idle"
    /\ op = "none"
    /\ n = 0
    /\ ratio = [nan |-> FALSE, num |-> 0]
    /\ work = EmptyWork
    /\ selected = <<>>
    /\ result = <<>>

Finish(w, sel) ==
    LET r == summarize_impl(w.sentences, sel)
    IN  /\ work' = [w EXCEPT !.stages =
                        @ \o <<"truncate", "summarize_impl">>
                          \o (IF r.panic THEN <<"panic">> ELSE <<>>)]
        /\ selected' = sel
        /\ result' = r.out
        /\ pc' = IF r.panic THEN "panicked" ELSE "done"

\* w is the outcome of the call of summarize_indices
summarize_ratio(r, w) ==
    /\ pc = "idle"
    /\ op' = "ratio"
    /\ ratio' = r
    /\ UNCHANGED <<summarizer, text, n>>
    /\ \/ /\ ~RatioInRange(r)
          /\ pc' = "panicked"
          /\ UNCHANGED <<work, selected, result>>
       \/ /\ RatioInRange(r)
          /\ Panicked(w)
          /\ pc' = "panicked"
          /\ work' = w
          /\ UNCHANGED <<selected, result>>
       \/ /\ RatioInRange(r)
          /\ ~Panicked(w)
          /\ w.sentences = <<>>
          /\ pc' = "done"
          /\ work' = w
          /\ result' = <<>>
          /\ UNCHANGED selected
       \/ /\ RatioInRange(r)
          /\ ~Panicked(w)
          /\ w.sentences # <<>>
          /\ LET target == Target(r, TextLen(text))
                 end == RatioEnd(w.sentences, w.indices, target)
             IN  Finish(w, Truncate(w.indices, end))

summarize_sentences(k, w) ==
    /\ pc = "idle"
    /\ op' = "sentences"
    /\ n' = k
    /\ UNCHANGED <<summarizer, text, ratio>>
    /\ \/ /\ Panicked(w)
          /\ pc' = "panicked"
          /\ work' = w
          /\ UNCHANGED <<selected, result>>
       \/ /\ ~Panicked(w)
          /\ w.sentences = <<>>
          /\ pc' = "done"
          /\ work' = w
          /\ result' = <<>>
          /\ UNCHANGED selected
       \/ /\ ~Panicked(w)
          /\ w.sentences # <<>>
          /\ Finish(w, Truncate(w.indices, k))

\* the two calls, on every argument and every outcome of summarize_indices
SummarizeSentences ==
    /\ pc = "idle"
    /\ \E w \in summarize_indices(summarizer, text) :
          \E k \in 1..MaxN : summarize_sentences(k, w)

SummarizeRatio ==
    /\ pc = "idle"
    /\ \E w \in summarize_indices(summarizer, text) :
          \E r \in Ratios : summarize_ratio(r, w)

Next == SummarizeSentences \/ SummarizeRatio

Spec == Init /\ [][Next]_vars

\* ------------------------------------------------------------ properties
\* the sentence list S of the text, in document order
NumSentences == Len(text.sents)
DocSentence(i) ==
    [idx |-> i, words |-> text.sents[i + 1],
     ws |-> (i + 1 < NumSentences) \/ text.ws]
DocSentences == [i \in 1..NumSentences |-> DocSentence(i - 1)]

WithinLimit == TextLen(text).hi < Limb
RatioValid == ~ratio.nan /\ ratio.num >= 0 /\ ratio.num <= RatioDen
Called == pc # "idle"
Ranked == Called /\ work.indices # <<>>

\* a sequence of slices of the text in strictly ascending places
IsSubsequence(out) ==
    /\ \A i \in DOMAIN out :
          /\ out[i].idx \in 0..(NumSentences - 1)
          /\ out[i] = DocSentence(out[i].idx)
    /\ \A i \in 1..(Len(out) - 1) : out[i].idx < out[i + 1].idx

\* the bytes the returned sentences are charged: trim_end length + 1 each
Charged(out) == SumOver(DOMAIN out, [i \in DOMAIN out |-> TrimEndLen(out[i]) + 1])

\* the charge of the first k sentences of the ranking
RankCharge(k) ==
    SumOver(1..k, [i \in 1..k |-> TrimEndLen(DocSentence(work.indices[i])) + 1])

RatioTarget == Target(ratio, TextLen(text))
OverTarget(c) == RatioTarget.hi = 0 /\ c > RatioTarget.lo

\* positions (1-based) of the ranking at which the charge is over target t
OverflowsAt(t) == {k \in 1..Len(work.indices) : t.hi = 0 /\ RankCharge(k) > t.lo}
Overflows == OverflowsAt(RatioTarget)
First(S) == CHOOSE k \in S : \A j \in S : k <= j
FirstOverflow == First(Overflows)

\* C1: summarize_sentences(D, n) on a text within the size limit does not
\* panic and returns a subsequence of the sentences of D in document order,
\* of at most n and at most |S| sentences, and all of S when n >= |S|.
C1_SentencesSubsequence ==
    (Called /\ op = "sentences" /\ WithinLimit) =>
        /\ pc = "done"
        /\ IsSubsequence(result)
        /\ Len(result) <= n
        /\ Len(result) <= NumSentences
        /\ (n >= NumSentences => result = DocSentences)

C1_Witness ==
    /\ pc = "done" /\ op = "sentences"
    /\ NumSentences = 3 /\ n = 2
    /\ Len(result) = 2 /\ result[1].idx = 1

\* C2: summarize_ratio(D, 1.0) returns all sentences of D in original order.
C2_RatioOneReturnsAll ==
    (pc = "done" /\ op = "ratio" /\ ~ratio.nan /\ ratio.num = RatioDen) =>
        result = DocSentences

\* C3: summarize_ratio on a text with at least one sentence and a ratio in
\* [0, 1] returns at least one sentence; exactly one when the first sentence
\* of the ranking already exceeds the target (so for ratio 0); and the one
\* sentence of a single-sentence text for any ratio.
C3_RatioAtLeastOne ==
    (Called /\ op = "ratio" /\ RatioValid /\ WithinLimit /\ NumSentences >= 1) =>
        /\ pc = "done"
        /\ Len(result) >= 1
        /\ (ratio.num = 0 => Len(result) = 1)
        /\ (Ranked /\ OverTarget(RankCharge(1)) => Len(result) = 1)
        /\ (NumSentences = 1 => result = DocSentences)

C3_Witness ==
    /\ pc = "done" /\ op = "ratio" /\ ratio.num = 0
    /\ NumSentences = 3 /\ Len(result) = 1

\* C4 (as claimed): the walk stops at the first sentence of the ranking that
\* takes the accumulated trim_end length + 1 over round(ratio * len), and
\* that sentence is in the selected set.
C4_OverflowIncluded ==
    (pc = "done" /\ op = "ratio" /\ Ranked /\ Overflows # {}) =>
        selected = SubSeq(work.indices, 1, FirstOverflow)

\* C4 (amended): the selected set is the sentences of the ranking before the
\* first one that takes the accumulated trim_end length + 1 over
\* round(ratio * len); the overflowing sentence is left out, unless it is
\* the first of the ranking, which is then the only one selected; with no
\* overflow the whole ranking is selected.
C4_OverflowExcluded ==
    (pc = "done" /\ op = "ratio" /\ Ranked) =>
        \A over \in {Overflows} :
            /\ over = {} => selected = work.indices
            /\ over # {} =>
                  \A first \in {First(over)} :
                      /\ first = 1 => selected = SubSeq(work.indices, 1, 1)
                      /\ first > 1 => selected = SubSeq(work.indices, 1, first - 1)

C4_Witness ==
    /\ pc = "done" /\ op = "ratio" /\ Ranked
    /\ Overflows # {} /\ FirstOverflow = 3
    /\ Len(selected) = 2

\* C5: a summary by ratio of more than one sentence is charged (trim_end
\* length + 1 per sentence) at most round(ratio * len).
C5_WithinTarget ==
    (pc = "done" /\ op = "ratio" /\ Len(result) > 1) => ~OverTarget(Charged(result))

C5_Witness ==
    /\ pc = "done" /\ op = "ratio"
    /\ NumSentences = 3 /\ Len(result) = 2
    /\ Charged(result) = RatioTarget.lo /\ RatioTarget.hi = 0

\* C6: a text of no sentences makes both calls return the empty sequence
\* without a panic, with nothing run after the segmentation.
C6_EmptyShortCircuit ==
    (Called /\ WithinLimit /\ (op = "ratio" => RatioValid) /\ NumSentences = 0) =>
        /\ pc = "done"
        /\ result = <<>>
        /\ work.stages = <<"sentences">>

C6_Witness ==
    /\ pc = "done" /\ NumSentences = 0
    /\ op = "ratio" /\ text.pad.lo = 1 /\ text.pad.hi = 0

\* C7: a text of more than 2^32 - 1 bytes panics in both calls, a ratio
\* outside [0, 1] panics in summarize_ratio, both before any stage of the
\* pipeline has run; a text of exactly 2^32 - 1 bytes and the ratios 0 and
\* 1 are accepted.
C7_FailFast ==
    Called =>
        /\ (~WithinLimit \/ (op = "ratio" /\ ~RatioValid)) =>
              /\ pc = "panicked"
              /\ work.stages \in {<<>>, <<"panic">>}
              /\ result = <<>>
        /\ (WithinLimit /\ (op = "ratio" => RatioValid)) => pc = "done"

C7_Witness ==
    /\ pc = "done" /\ op = "ratio" /\ ratio.num = RatioDen
    /\ TextLen(text) = U32Max /\ NumSentences = 2

\* C8: no weight of a tf-idf vector and no similarity is NaN: a vector of
\* zero magnitude is a zero vector, of similarity 0 to every vector.
C8_NoNaN ==
    Ranked =>
        /\ \A i \in DOMAIN work.tf_idfs :
              \A t \in DOMAIN work.tf_idfs[i] : ~work.tf_idfs[i][t].nan
        /\ \A t \in DOMAIN work.overall : ~work.overall[t].nan
        /\ \A i \in DOMAIN work.docSims : ~work.docSims[i].nan
        /\ \A i \in DOMAIN work.coreSims : ~work.coreSims[i].nan

\* C9: the core sentence has a similarity to the vector of the whole text
\* that no sentence exceeds in the total order, and every sentence after
\* it is strictly below it (the last maximal one is picked).
C9_CoreIsLastMax ==
    Ranked =>
        /\ work.core \in 0..(NumSentences - 1)
        /\ \A j \in 1..NumSentences :
              /\ work.docSims[j] = cosine_compare(work.tf_idfs[j], work.overall)
              /\ TotalKey(work.docSims[j]) <= TotalKey(work.docSims[work.core + 1])
              /\ j > work.core + 1 =>
                    TotalKey(work.docSims[j]) < TotalKey(work.docSims[work.core + 1])

C9_Witness ==
    /\ Ranked /\ NumSentences = 3 /\ work.core = 1
    /\ ~work.docSims[2].nan /\ work.docSims[2].mag > 0
    /\ work.docSims[1] = work.docSims[2]
    /\ TotalKey(work.docSims[3]) < TotalKey(work.docSims[2])

\* C10: the ranking holds every sentence index once, in non-increasing
\* order (total order) of similarity to the vector of the core sentence,
\* and both calls select a prefix of it, which the result holds in
\* document order.
C10_RankingPermutation ==
    Ranked =>
        /\ Len(work.indices) = NumSentences
        /\ {work.indices[i] : i \in DOMAIN work.indices} = 0..(NumSentences - 1)
        /\ \A j \in 1..NumSentences :
              work.coreSims[j] =
                  cosine_compare(work.tf_idfs[j], work.tf_idfs[work.core + 1])
        /\ \A i \in 1..(NumSentences - 1) :
              TotalKey(work.coreSims[work.indices[i] + 1])
                  >= TotalKey(work.coreSims[work.indices[i + 1] + 1])
        /\ pc = "done" =>
              /\ Len(selected) >= 1
              /\ selected = SubSeq(work.indices, 1, Len(selected))
              /\ {result[i].idx : i \in DOMAIN result}
                    = {selected[i] : i \in DOMAIN selected}

C10_Witness ==
    /\ pc = "done" /\ NumSentences = 3
    /\ work.indices[1] = 2 /\ work.indices[2] = 0
    /\ work.core = 2
    /\ TotalKey(work.coreSims[3]) > TotalKey(work.coreSims[1])
    /\ TotalKey(work.coreSims[1]) > TotalKey(work.coreSims[2])
    /\ work.docSims # work.coreSims
    /\ Len(selected) = 2

====
